---- MODULE Spec2Model ----
(***************************************************************************)
(* Timing core of timestamper.py: the TimeStamper recorder (device reads   *)
(* and writes, edge logs, trigger counter) and the TimeStamperApp session  *)
(* (poll timer, trigger timer, start/stop button, rate and max-trigger     *)
(* fields).  Qt runs every slot to completion on one event loop, so each   *)
(* handler is one atomic action.                                           *)
(*                                                                         *)
(* No handler reads the clock or a log to decide what to do (the limit     *)
(* test reads trigger_counter only), so the session specifications hold    *)
(* the coarse clock still and SpecRecorder, the recorder on its own, lets  *)
(* it run.                                                                 *)
(***************************************************************************)
EXTENDS Integers, Sequences, FiniteSets, TLC

(* ------------------------------ bounds -------------------------------- *)
\* Elapsed time is read on a coarse clock 0..MaxTime.
MaxTime == 1
\* Cap on the entries of the two trigger logs together.
MaxTriggerEntries == 7
\* Cap on the entries of all input logs together.
MaxInputEntries == 2

(* ------------------------- program constants -------------------------- *)
DEFAULT_TRIGGER_RATE == 20
DEFAULT_MAX_TRIGGERS == 10
\* int(SAMPLING_PERIOD * 1000)
SAMPLING_PERIOD_MS == 1

DIGITAL_INPUT_PINS == <<6>>
\* The two-input configuration named in the comment beside DIGITAL_INPUT_PINS.
DIGITAL_INPUT_PINS_2 == <<6, 7>>

\* Texts typed into the "Trigger rate (Hz)" field, as numbers.
RateChoices == {0, 3}
\* Texts typed into the "Max triggers" field, as numbers.
MaxTriggerChoices == {-1, 0, 1, 2}

VARIABLES
    device,          \* the LabJack: [FIO: level of each input pin, trigger: level written to the trigger pin]
    timestamper,     \* the TimeStamper object's fields
    polling,         \* TimeStamperApp.polling
    trigger_state,   \* TimeStamperApp.trigger_state
    max_n_triggers,  \* TimeStamperApp.max_n_triggers
    trigger_rate,    \* text of the trigger_rate field
    timerPoll,       \* QTimer: [active, interval]
    timer_trigger,   \* QTimer: [active, interval]
    change_status,   \* value returned by the last timestamper.poll(): <<>> before any
    clock,           \* elapsed time since start_time, as datetime.now() reads it
    run              \* history of the session: [starts: start_polling() calls so far
                     \* (2 = two or more), and since the last of them: ticks of the
                     \* trigger slot, user_stops and limit_edits (0 or 1);
                     \* after_limit: the last start followed a run that ended
                     \* by itself on a trigger tick, with no edit of the limit
                     \* since that run began]

vars == <<device, timestamper, polling, trigger_state, max_n_triggers,
          trigger_rate, timerPoll, timer_trigger, change_status, clock, run>>

(* ------------------------------ helpers ------------------------------- *)
Levels(n) == [1..n -> {0, 1}]

RECURSIVE SumLen(_, _)
SumLen(logs, n) == IF n = 0 THEN 0 ELSE Len(logs[n]) + SumLen(logs, n - 1)

\* Number of entries in the trigger logs of recorder ts.
TriggerEntries(ts) ==
    Len(ts.timestamps_trigger_rising) + Len(ts.timestamps_trigger_falling)

\* Number of entries in the input logs of recorder ts.
InputEntries(ts) ==
    SumLen(ts.timestamps_rising, Len(ts.state))
        + SumLen(ts.timestamps_falling, Len(ts.state))

\* Indices whose level differs between two vectors.
Changed(prev, cur) == {ind \in 1..Len(prev) : cur[ind] # prev[ind]}

(* ------------------------------ device -------------------------------- *)
\* device.setFIOState(trigger_pin, state)
setFIOState(dev, state) == [dev EXCEPT !.trigger = state]

(* ---------------------------- TimeStamper ----------------------------- *)
\* TimeStamper.__init__ after the baseline read of every input pin.
TimeStamper_init(levels) ==
    [state |-> levels,
     trigger_counter |-> 0,
     timestamps_trigger_rising |-> <<>>,
     timestamps_trigger_falling |-> <<>>,
     timestamps_rising |-> [ind \in 1..Len(levels) |-> <<>>],
     timestamps_falling |-> [ind \in 1..Len(levels) |-> <<>>]]

\* Variant of TimeStamper.trigger that counts every command, not only the
\* rising ones.
TimeStamper_trigger_counts_all(ts, state, timestamp_sec) ==
    IF state
    THEN [ts EXCEPT !.timestamps_trigger_rising = Append(@, timestamp_sec),
                    !.trigger_counter = @ + 1]
    ELSE [ts EXCEPT !.timestamps_trigger_falling = Append(@, timestamp_sec),
                    !.trigger_counter = @ + 1]

\* TimeStamper.trigger(state): the recorder after the command is logged.
TimeStamper_trigger(ts, state, timestamp_sec) ==
    IF state
    THEN [ts EXCEPT !.timestamps_trigger_rising = Append(@, timestamp_sec),
                    !.trigger_counter = @ + 1]
    ELSE [ts EXCEPT !.timestamps_trigger_falling = Append(@, timestamp_sec)]

\* Variant of TimeStamper.poll that compares each input with level 0 instead
\* of its stored level.
TimeStamper_poll_no_previous(ts, levels, timestamp_sec) ==
    LET n == Len(ts.state)
    IN  [ts EXCEPT
          !.state = levels,
          !.timestamps_rising =
              [ind \in 1..n |->
                  IF levels[ind] = 1
                  THEN Append(@[ind], timestamp_sec) ELSE @[ind]]]

\* Variant of TimeStamper.poll that logs the edges but does not store the
\* levels it read.
TimeStamper_poll_keeps_state(ts, levels, timestamp_sec) ==
    LET previousState == ts.state
        n == Len(previousState)
    IN  [ts EXCEPT
          !.timestamps_rising =
              [ind \in 1..n |->
                  IF levels[ind] # previousState[ind] /\ levels[ind] = 1
                  THEN Append(@[ind], timestamp_sec) ELSE @[ind]],
          !.timestamps_falling =
              [ind \in 1..n |->
                  IF levels[ind] # previousState[ind] /\ levels[ind] # 1
                  THEN Append(@[ind], timestamp_sec) ELSE @[ind]]]

\* Variant of TimeStamper.poll that appends an input's rising edge to the
\* trigger's rising list instead of the input's own.
TimeStamper_poll_wrong_list(ts, levels, timestamp_sec) ==
    LET previousState == ts.state
        n == Len(previousState)
        rose == {ind \in 1..n :
                   levels[ind] # previousState[ind] /\ levels[ind] = 1}
    IN  [ts EXCEPT
          !.state = levels,
          !.timestamps_trigger_rising =
              IF rose # {} THEN Append(@, timestamp_sec) ELSE @,
          !.timestamps_falling =
              [ind \in 1..n |->
                  IF levels[ind] # previousState[ind] /\ levels[ind] # 1
                  THEN Append(@[ind], timestamp_sec) ELSE @[ind]]]

\* Variant of TimeStamper.poll that reads the clock again for every input, so
\* that a later index gets a later value.
TimeStamper_poll_time_per_index(ts, levels, timestamp_sec) ==
    LET previousState == ts.state
        n == Len(previousState)
    IN  [ts EXCEPT
          !.state = levels,
          !.timestamps_rising =
              [ind \in 1..n |->
                  IF levels[ind] # previousState[ind] /\ levels[ind] = 1
                  THEN Append(@[ind], timestamp_sec + ind - 1) ELSE @[ind]],
          !.timestamps_falling =
              [ind \in 1..n |->
                  IF levels[ind] # previousState[ind] /\ levels[ind] # 1
                  THEN Append(@[ind], timestamp_sec + ind - 1) ELSE @[ind]]]

\* TimeStamper.poll(): the recorder after reading levels from the device.
TimeStamper_poll(ts, levels, timestamp_sec) ==
    LET previousState == ts.state
        n == Len(previousState)
    IN  [ts EXCEPT
          !.state = levels,
          !.timestamps_rising =
              [ind \in 1..n |->
                  IF levels[ind] # previousState[ind] /\ levels[ind] = 1
                  THEN Append(@[ind], timestamp_sec) ELSE @[ind]],
          !.timestamps_falling =
              [ind \in 1..n |->
                  IF levels[ind] # previousState[ind] /\ levels[ind] # 1
                  THEN Append(@[ind], timestamp_sec) ELSE @[ind]]]

\* The value TimeStamper.poll() returns.
poll_change_status(ts, levels) == levels # ts.state

\* TimeStamper.poll() when getFIOState raises at input index k: the indices
\* before k are already stored, nothing is logged.
TimeStamper_poll_raises(ts, levels, k) ==
    [ts EXCEPT !.state = [ind \in 1..Len(ts.state) |->
                             IF ind < k THEN levels[ind] ELSE @[ind]]]

(* --------------------------- TimeStamperApp --------------------------- *)
\* int(0.5 / trigger_rate * 1000): int() truncates toward zero.
HalfIntervalMs(rate) ==
    IF rate > 0 THEN 500 \div rate ELSE 0 - (500 \div (0 - rate))

\* set_trigger_timer_half_interval(trigger_rate); raises for rate 0.
set_trigger_timer_half_interval(timer, rate) ==
    [timer EXCEPT !.interval = HalfIntervalMs(rate)]

\* A QTimer calls its slot only between start() and stop().
Fires(timer) == timer.active

\* Variant of stop_polling() that leaves the poll timer running.
stop_polling_keeps_timerPoll(ts, t) ==
    /\ polling' = FALSE
    /\ UNCHANGED timerPoll
    /\ timer_trigger' = [timer_trigger EXCEPT !.active = FALSE]
    /\ device' = setFIOState(device, FALSE)
    /\ timestamper' = TimeStamper_trigger(ts, FALSE, t)

\* Variant of stop_polling() without the final timestamper.trigger(False).
stop_polling_no_final_command(ts, t) ==
    /\ polling' = FALSE
    /\ timerPoll' = [timerPoll EXCEPT !.active = FALSE]
    /\ timer_trigger' = [timer_trigger EXCEPT !.active = FALSE]
    /\ device' = device
    /\ timestamper' = ts

\* The body of stop_polling(), run on recorder value ts at elapsed time t.
stop_polling(ts, t) ==
    /\ polling' = FALSE
    /\ timerPoll' = [timerPoll EXCEPT !.active = FALSE]
    /\ timer_trigger' = [timer_trigger EXCEPT !.active = FALSE]
    /\ device' = setFIOState(device, FALSE)
    /\ timestamper' = TimeStamper_trigger(ts, FALSE, t)

\* Variant of start_polling() that resets the trigger counter.
start_polling_resets_counter ==
    /\ polling' = TRUE
    /\ timerPoll' = [timerPoll EXCEPT !.active = TRUE]
    /\ IF trigger_rate = 0
       THEN UNCHANGED timer_trigger
       ELSE timer_trigger' =
              [set_trigger_timer_half_interval(timer_trigger, trigger_rate)
                 EXCEPT !.active = TRUE]
    /\ timestamper' = [timestamper EXCEPT !.trigger_counter = 0]
    /\ run' = [starts |-> IF run.starts = 0 THEN 1 ELSE 2,
               ticks |-> 0, user_stops |-> 0, limit_edits |-> 0,
               after_limit |-> /\ ~polling
                               /\ run.ticks >= 1
                               /\ run.user_stops = 0
                               /\ run.limit_edits = 0]
    /\ UNCHANGED <<device, trigger_state, max_n_triggers,
                   trigger_rate, change_status, clock>>

\* start_polling(): 0.5/trigger_rate raises ZeroDivisionError for rate 0,
\* after polling is set and the poll timer is started.
start_polling ==
    /\ polling' = TRUE
    /\ timerPoll' = [timerPoll EXCEPT !.active = TRUE]
    /\ IF trigger_rate = 0
       THEN UNCHANGED timer_trigger
       ELSE timer_trigger' =
              [set_trigger_timer_half_interval(timer_trigger, trigger_rate)
                 EXCEPT !.active = TRUE]
    /\ run' = [starts |-> IF run.starts = 0 THEN 1 ELSE 2,
               ticks |-> 0, user_stops |-> 0, limit_edits |-> 0,
               after_limit |-> /\ ~polling
                               /\ run.ticks >= 1
                               /\ run.user_stops = 0
                               /\ run.limit_edits = 0]
    /\ UNCHANGED <<device, timestamper, trigger_state, max_n_triggers,
                   trigger_rate, change_status, clock>>

\* stop_polling() called on its own (button, or a direct call).
call_stop_polling ==
    /\ TriggerEntries(timestamper) + 1 <= MaxTriggerEntries
    /\ stop_polling(timestamper, clock)
    /\ run' = [run EXCEPT !.user_stops = 1]
    /\ UNCHANGED <<trigger_state, max_n_triggers, trigger_rate,
                   change_status, clock>>

\* The start/stop button.
start_stop_polling ==
    IF ~polling THEN start_polling ELSE call_stop_polling

\* Variant of the trigger slot that stops only once the counter is above the
\* limit.
trigger_stops_above_limit ==
    /\ Fires(timer_trigger)
    /\ TriggerEntries(timestamper) + 2 <= MaxTriggerEntries
    /\ trigger_state' = ~trigger_state
    /\ LET ts1 == TimeStamper_trigger(timestamper, ~trigger_state, clock)
       IN  IF ts1.trigger_counter > max_n_triggers /\ ~(~trigger_state)
           THEN stop_polling(ts1, clock)
           ELSE /\ timestamper' = ts1
                /\ device' = setFIOState(device, ~trigger_state)
                /\ UNCHANGED <<polling, timerPoll, timer_trigger>>
    /\ run' = [run EXCEPT !.ticks = @ + 1]
    /\ UNCHANGED <<max_n_triggers, trigger_rate, change_status, clock>>

\* Variant of the trigger slot that stops only when the counter equals the
\* limit.
trigger_stops_on_equal ==
    /\ Fires(timer_trigger)
    /\ TriggerEntries(timestamper) + 2 <= MaxTriggerEntries
    /\ trigger_state' = ~trigger_state
    /\ LET ts1 == TimeStamper_trigger(timestamper, ~trigger_state, clock)
       IN  IF ts1.trigger_counter = max_n_triggers /\ ~(~trigger_state)
           THEN stop_polling(ts1, clock)
           ELSE /\ timestamper' = ts1
                /\ device' = setFIOState(device, ~trigger_state)
                /\ UNCHANGED <<polling, timerPoll, timer_trigger>>
    /\ run' = [run EXCEPT !.ticks = @ + 1]
    /\ UNCHANGED <<max_n_triggers, trigger_rate, change_status, clock>>

\* Slot of timer_trigger.
trigger ==
    /\ Fires(timer_trigger)
    /\ TriggerEntries(timestamper) + 2 <= MaxTriggerEntries
    /\ trigger_state' = ~trigger_state
    /\ LET ts1 == TimeStamper_trigger(timestamper, ~trigger_state, clock)
       IN  IF ts1.trigger_counter >= max_n_triggers /\ ~(~trigger_state)
           THEN stop_polling(ts1, clock)
           ELSE /\ timestamper' = ts1
                /\ device' = setFIOState(device, ~trigger_state)
                /\ UNCHANGED <<polling, timerPoll, timer_trigger>>
    /\ run' = [run EXCEPT !.ticks = @ + 1]
    /\ UNCHANGED <<max_n_triggers, trigger_rate, change_status, clock>>

\* Slot of timerPoll.
poll ==
    /\ Fires(timerPoll)
    /\ InputEntries(timestamper)
          + Cardinality(Changed(timestamper.state, device.FIO)) <= MaxInputEntries
    /\ timestamper' = TimeStamper_poll(timestamper, device.FIO, clock)
    /\ change_status' = <<poll_change_status(timestamper, device.FIO)>>
    /\ UNCHANGED <<device, polling, trigger_state, max_n_triggers,
                   trigger_rate, timerPoll, timer_trigger, clock, run>>

\* Slot of timer_trigger when device.setFIOState raises: the exception leaves
\* the slot after trigger_state is flipped; nothing catches it.
trigger_DeviceIOError ==
    /\ Fires(timer_trigger)
    /\ run.ticks < MaxTriggerEntries
    /\ trigger_state' = ~trigger_state
    /\ run' = [run EXCEPT !.ticks = @ + 1]
    /\ UNCHANGED <<device, timestamper, polling, max_n_triggers, trigger_rate,
                   timerPoll, timer_trigger, change_status, clock>>

\* Slot of timerPoll when device.getFIOState raises at some input index.
poll_DeviceIOError ==
    /\ Fires(timerPoll)
    /\ \E k \in 1..Len(timestamper.state) :
          timestamper' = TimeStamper_poll_raises(timestamper, device.FIO, k)
    /\ UNCHANGED <<device, polling, trigger_state, max_n_triggers, trigger_rate,
                   timerPoll, timer_trigger, change_status, clock, run>>

\* update_max_triggers(): the field's text becomes the limit.
update_max_triggers(n) ==
    /\ max_n_triggers' = n
    /\ run' = [run EXCEPT !.limit_edits = 1]
    /\ UNCHANGED <<device, timestamper, polling, trigger_state, trigger_rate,
                   timerPoll, timer_trigger, change_status, clock>>

\* Variant of update_trigger_period() that also sets the trigger timer's
\* interval from the new rate.
update_trigger_period_sets_timer(r) ==
    /\ trigger_rate' = r
    /\ timer_trigger' = IF r = 0 THEN timer_trigger
                        ELSE set_trigger_timer_half_interval(timer_trigger, r)
    /\ UNCHANGED <<device, timestamper, polling, trigger_state, max_n_triggers,
                   timerPoll, change_status, clock, run>>

\* update_trigger_period(): the rate field is edited; only a label follows it.
update_trigger_period(r) ==
    /\ trigger_rate' = r
    /\ UNCHANGED <<device, timestamper, polling, trigger_state, max_n_triggers,
                   timerPoll, timer_trigger, change_status, clock, run>>

(* ---------------------------- environment ----------------------------- *)
\* An input line changes level.
DeviceChange ==
    /\ \E ind \in 1..Len(device.FIO) :
          device' = [device EXCEPT !.FIO[ind] = 1 - @]
    /\ UNCHANGED <<timestamper, polling, trigger_state, max_n_triggers,
                   trigger_rate, timerPoll, timer_trigger, change_status, clock,
                   run>>

\* Time passes between two handlers.
TimePasses ==
    /\ clock < MaxTime
    /\ clock' = clock + 1
    /\ UNCHANGED <<device, timestamper, polling, trigger_state, max_n_triggers,
                   trigger_rate, timerPoll, timer_trigger, change_status, run>>

(* ------------------- the recorder called directly -------------------- *)
\* timestamper.poll() called by any caller.
TimeStamper_poll_call ==
    /\ InputEntries(timestamper)
          + Cardinality(Changed(timestamper.state, device.FIO)) <= MaxInputEntries
    /\ timestamper' = TimeStamper_poll(timestamper, device.FIO, clock)
    /\ change_status' = <<poll_change_status(timestamper, device.FIO)>>
    /\ UNCHANGED <<device, polling, trigger_state, max_n_triggers,
                   trigger_rate, timerPoll, timer_trigger, clock, run>>

(* --------------------------- specifications --------------------------- *)
\* The fields TimeStamperApp.__init__ sets before it calls stop_polling().
AppDefaults ==
    /\ polling = FALSE
    /\ trigger_state = FALSE
    /\ max_n_triggers = DEFAULT_MAX_TRIGGERS
    /\ trigger_rate = DEFAULT_TRIGGER_RATE
    /\ timerPoll = [active |-> FALSE, interval |-> SAMPLING_PERIOD_MS]
    /\ timer_trigger = [active |-> FALSE,
                        interval |-> HalfIntervalMs(DEFAULT_TRIGGER_RATE)]
    /\ change_status = <<>>
    /\ clock = 0
    /\ run = [starts |-> 0, ticks |-> 0, user_stops |-> 0, limit_edits |-> 0,
              after_limit |-> FALSE]

\* TimeStamperApp.__init__: the recorder is built on a baseline read, the
\* fields take their defaults, and the constructor ends with stop_polling().
Init ==
    \E levels \in Levels(Len(DIGITAL_INPUT_PINS)) :
        /\ device = [FIO |-> levels, trigger |-> FALSE]
        /\ timestamper = TimeStamper_trigger(TimeStamper_init(levels), FALSE, 0)
        /\ AppDefaults

\* The program as its user drives it: button, fields, timers, device.
Next ==
    \/ start_stop_polling
    \/ trigger
    \/ poll
    \/ \E n \in MaxTriggerChoices : update_max_triggers(n)
    \/ \E r \in RateChoices : update_trigger_period(r)
    \/ DeviceChange

Spec == Init /\ [][Next]_vars

\* Trigger records a run started now adds before it stops by the limit: a
\* rising and a falling one per pulse, and the record of the final stop.
RunRecords ==
    LET left == max_n_triggers - timestamper.trigger_counter
    IN  2 * (IF left > 1 THEN left ELSE 1) + 1

\* The start button pressed while idle, when the record cap leaves room for
\* the whole run, so that the cap never silences the trigger timer mid-run.
start_within_cap ==
    /\ ~polling
    /\ TriggerEntries(timestamper) + RunRecords <= MaxTriggerEntries
    /\ start_polling

\* The max-triggers field edited while the session is idle.
update_max_triggers_idle(n) ==
    /\ ~polling
    /\ update_max_triggers(n)

\* Sessions that nobody stops by hand: the button only starts, the limit is
\* set between runs, and an active trigger timer keeps firing its slot.
NextFair ==
    \/ start_within_cap
    \/ trigger
    \/ poll
    \/ \E n \in MaxTriggerChoices : update_max_triggers_idle(n)
    \/ \E r \in RateChoices : update_trigger_period(r)
    \/ DeviceChange

SpecFair == Init /\ [][NextFair]_vars /\ WF_vars(trigger)

\* The session's methods called directly, in any state.
NextAPI ==
    \/ start_polling
    \/ call_stop_polling
    \/ trigger
    \/ poll
    \/ \E n \in MaxTriggerChoices : update_max_triggers(n)
    \/ \E r \in RateChoices : update_trigger_period(r)
    \/ DeviceChange

SpecAPI == Init /\ [][NextAPI]_vars

\* The same construction with the two-input configuration.
Init2 ==
    \E levels \in Levels(Len(DIGITAL_INPUT_PINS_2)) :
        /\ device = [FIO |-> levels, trigger |-> FALSE]
        /\ timestamper = TimeStamper_trigger(TimeStamper_init(levels), FALSE, 0)
        /\ AppDefaults

\* The program at its default rate and limit, with device reads and writes
\* that may fail.
NextIOError ==
    \/ start_stop_polling
    \/ trigger
    \/ poll
    \/ DeviceChange
    \/ trigger_DeviceIOError
    \/ poll_DeviceIOError

SpecIOError == Init2 /\ [][NextIOError]_vars

\* TimeStamper.__init__ alone, with one or two input pins, the trigger pin
\* at either level.
InitRecorder ==
    \E pins \in {DIGITAL_INPUT_PINS, DIGITAL_INPUT_PINS_2} :
      \E levels \in Levels(Len(pins)) : \E out \in BOOLEAN :
        /\ device = [FIO |-> levels, trigger |-> out]
        /\ timestamper = TimeStamper_init(levels)
        /\ AppDefaults

\* The recorder sampled at any moment while the inputs change and time
\* passes.
NextRecorder ==
    \/ TimeStamper_poll_call
    \/ DeviceChange
    \/ TimePasses

SpecRecorder == InitRecorder /\ [][NextRecorder]_vars

(* ------------------------------- claims ------------------------------- *)
RisingCount == Len(timestamper.timestamps_trigger_rising)
FallingCount == Len(timestamper.timestamps_trigger_falling)

\* C1: in the first run of a session with limit N >= 1, after start() and
\* 2*N trigger ticks with no user stop and no edit of the limit, the session
\* has stopped and the trigger rising and falling logs hold N entries each.
C1_FirstRunCounts ==
    (/\ run.starts = 1 /\ run.user_stops = 0 /\ run.limit_edits = 0
     /\ max_n_triggers >= 1
     /\ run.ticks = 2 * max_n_triggers)
    => (~polling /\ RisingCount = max_n_triggers
                 /\ FallingCount = max_n_triggers)

\* C2: the trigger rising and falling logs differ in length by at most 1 in
\* every reachable state.
C2_Alternation ==
    /\ RisingCount - FallingCount <= 1
    /\ FallingCount - RisingCount <= 1

\* C3: every trigger tick flips trigger_state and adds exactly one entry to
\* the trigger logs, the tick that reaches the limit included.
C3_OneRecordPerTick ==
    [][trigger =>
         /\ trigger_state' = ~trigger_state
         /\ TriggerEntries(timestamper') = TriggerEntries(timestamper) + 1]_vars

\* C4: stop() called when the session is already stopped leaves it stopped
\* and appends no further forced falling record.
C4_StopIdempotent ==
    [][(~polling /\ call_stop_polling) =>
         /\ ~polling'
         /\ timestamper'.timestamps_trigger_falling
               = timestamper.timestamps_trigger_falling]_vars

\* C5: with a limit of zero or less no trigger tick stops a running session.
C5_NoLimitNoStop ==
    [][(max_n_triggers <= 0 /\ polling /\ trigger) =>
         (polling' /\ timerPoll'.active /\ timer_trigger'.active)]_vars

\* C6: start() with a rate of zero or less leaves the session idle: the
\* running flag false, both timers inactive, every log as it was.
C6_StartRejected ==
    [][(trigger_rate <= 0 /\ ~polling /\ start_stop_polling) =>
         /\ ~polling'
         /\ ~timerPoll'.active
         /\ ~timer_trigger'.active
         /\ timestamper' = timestamper]_vars

\* C7: from stop() to the next start() neither timer fires, and the input
\* state, every input log, the trigger logs and the trigger counter stay as
\* the stop left them.
C7_NoTicksAfterStop ==
    [][~polling =>
         /\ ~Fires(timerPoll)
         /\ ~Fires(timer_trigger)
         /\ ~ENABLED poll
         /\ ~ENABLED trigger
         /\ (~polling' => timestamper' = timestamper)]_vars

\* C7 witness: a run was stopped by the user after a trigger tick, and an
\* input has changed level since without being sampled.
C7_Witness ==
    /\ ~polling
    /\ run.user_stops = 1
    /\ run.ticks >= 1
    /\ device.FIO # timestamper.state

\* C8: sample() appends one entry to the rising log of each index that went
\* low to high, one to the falling log of each index that went high to low,
\* nothing for an unchanged index, stores the levels read, and returns true
\* iff some index changed; with no device change it returns false and
\* appends nothing.
C8_Sample ==
    [][TimeStamper_poll_call =>
         LET prev == timestamper.state
             cur == device.FIO
         IN  /\ \A ind \in 1..Len(prev) :
                  /\ Len(timestamper'.timestamps_rising[ind])
                       = Len(timestamper.timestamps_rising[ind])
                           + (IF prev[ind] = 0 /\ cur[ind] = 1 THEN 1 ELSE 0)
                  /\ Len(timestamper'.timestamps_falling[ind])
                       = Len(timestamper.timestamps_falling[ind])
                           + (IF prev[ind] = 1 /\ cur[ind] = 0 THEN 1 ELSE 0)
             /\ timestamper'.state = cur
             /\ change_status' = <<(\E ind \in 1..Len(prev) : prev[ind] # cur[ind])>>
             /\ (cur = prev =>
                   /\ change_status' = <<FALSE>>
                   /\ timestamper' = timestamper)]_vars

\* C8 witness: with two inputs, one has a rising entry, the other a falling
\* entry, and the last sample found no change.
C8_Witness ==
    /\ Len(timestamper.state) = 2
    /\ \E i, j \in 1..2 :
          /\ i # j
          /\ Len(timestamper.timestamps_rising[i]) = 1
          /\ Len(timestamper.timestamps_falling[j]) = 1
    /\ change_status = <<FALSE>>
    /\ timestamper.state = device.FIO

\* C9: the trigger counter equals the length of the trigger rising log, never
\* decreases, and changes only by 1 on a tick that commands a rising edge.
C9_TriggerCounter ==
    [][/\ timestamper.trigger_counter = RisingCount
       /\ timestamper'.trigger_counter
             = Len(timestamper'.timestamps_trigger_rising)
       /\ timestamper'.trigger_counter >= timestamper.trigger_counter
       /\ (timestamper'.trigger_counter # timestamper.trigger_counter
             <=> (trigger /\ trigger_state'))
       /\ ((trigger /\ trigger_state') =>
             timestamper'.trigger_counter = timestamper.trigger_counter + 1)]_vars

\* C9 witness: a second run is under way and the counter still holds the
\* rising commands of the first.
C9_Witness ==
    /\ run.starts = 2
    /\ run.ticks = 0
    /\ polling
    /\ timestamper.trigger_counter >= 1

\* C10: a device read or write that fails in a poll tick or a trigger tick
\* stops both timers.
C10_IOErrorHalts ==
    [][(trigger_DeviceIOError \/ poll_DeviceIOError) =>
         (~timerPoll'.active /\ ~timer_trigger'.active)]_vars

\* C11: after any start() the first trigger tick commands a rising edge.
C11_FirstTickRising ==
    [][(run.ticks = 0 /\ trigger) => trigger_state']_vars

\* C12: whenever the session is not running, the last level written to the
\* trigger output is low.
C12_OutputEndsLow == ~polling => device.trigger = FALSE

\* C12 witness: the user stopped a run while the trigger state was high.
C12_Witness ==
    /\ ~polling
    /\ run.user_stops = 1
    /\ trigger_state
    /\ RisingCount >= 1

\* C13: with a limit of 1 or more, a trigger tick stops the session iff it
\* commanded a falling edge and the counter has reached the limit; a stop by
\* limit stops the poll timer together with the trigger timer.
C13_StopByLimit ==
    [][(max_n_triggers >= 1 /\ polling /\ trigger) =>
         /\ ~polling' <=> (/\ ~trigger_state'
                           /\ timestamper'.trigger_counter >= max_n_triggers)
         /\ ~polling' => (~timerPoll'.active /\ ~timer_trigger'.active)
         /\ polling' => (timerPoll'.active = timerPoll.active
                           /\ timer_trigger'.active)]_vars

\* C13 witness: a run ended by the limit, exactly at the limit, with no user
\* stop.
C13_Witness ==
    /\ ~polling
    /\ run.starts = 1
    /\ run.user_stops = 0
    /\ run.ticks >= 2
    /\ max_n_triggers >= 1
    /\ timestamper.trigger_counter = max_n_triggers

\* The entry a sample appended for input ind, which changed to level.
NewEntry(ts, ind, level) ==
    IF level = 1
    THEN ts.timestamps_rising[ind][Len(ts.timestamps_rising[ind])]
    ELSE ts.timestamps_falling[ind][Len(ts.timestamps_falling[ind])]

\* C14: one sample() compares every input with the state stored before the
\* call, and gives all the indices that changed in it one and the same
\* elapsed-time value.
C14_OneSnapshotOneTime ==
    [][TimeStamper_poll_call =>
         LET prev == timestamper.state
             cur == device.FIO
             changed == {ind \in 1..Len(prev) : prev[ind] # cur[ind]}
         IN  /\ \A ind \in 1..Len(prev) :
                  Len(timestamper'.timestamps_rising[ind])
                      + Len(timestamper'.timestamps_falling[ind])
                    = Len(timestamper.timestamps_rising[ind])
                        + Len(timestamper.timestamps_falling[ind])
                        + (IF ind \in changed THEN 1 ELSE 0)
             /\ \A i, j \in changed :
                  NewEntry(timestamper', i, cur[i])
                     = NewEntry(timestamper', j, cur[j])]_vars

\* C14 witness: with two inputs, both logged an edge at the same elapsed time
\* after the clock had moved.
C14_Witness ==
    /\ Len(timestamper.state) = 2
    /\ clock = 1
    /\ change_status = <<TRUE>>
    /\ InputEntries(timestamper) = 2
    /\ \A ind \in 1..2 :
          NewEntry(timestamper, ind, timestamper.state[ind]) = 1

\* C15: for every rate above zero the interval set at start() makes two
\* ticks span 1/rate seconds: 2 * interval_ms * rate = 1000.
C15_ExactPeriod ==
    [][(~polling /\ trigger_rate > 0 /\ start_stop_polling) =>
         2 * timer_trigger'.interval * trigger_rate = 1000]_vars

\* C16: editing the rate while the session runs changes neither the trigger
\* timer nor the recorder; start() sets the interval from the rate current
\* at that moment.
C16_RateFixedAtStart ==
    [][/\ (polling /\ trigger_rate' # trigger_rate) =>
            /\ timer_trigger' = timer_trigger
            /\ timerPoll' = timerPoll
            /\ timestamper' = timestamper
            /\ device' = device
            /\ trigger_state' = trigger_state
            /\ polling'
       /\ (~polling /\ trigger_rate > 0 /\ start_stop_polling) =>
            /\ timer_trigger'.active
            /\ timer_trigger'.interval = 500 \div trigger_rate]_vars

\* C16 witness: the rate was edited to 3 Hz during the first run, ticks went
\* on, and the timer still holds the interval of the default rate.
C16_Witness ==
    /\ polling
    /\ timer_trigger.active
    /\ run.starts = 1
    /\ trigger_rate = 3
    /\ timer_trigger.interval = 500 \div DEFAULT_TRIGGER_RATE
    /\ RisingCount >= 1

\* Input ind's rising entries minus its falling entries.
InputBalance(ts, ind) ==
    Len(ts.timestamps_rising[ind]) - Len(ts.timestamps_falling[ind])

\* The level of input ind before its first logged edge, as the stored level
\* and the logs imply it.
ImpliedBaseline(ts, ind) == ts.state[ind] - InputBalance(ts, ind)

\* C17: the input logs start empty, so that the implied baseline is the level
\* read at construction; from then on it never changes and is a level (0 or
\* 1), hence rising minus falling entries of an input is its stored level
\* minus its baseline, within -1..1; a rising entry is only added when the
\* balance is at its lower value and a falling one when it is at its upper
\* value, so the entries of an input alternate, and an input high at
\* construction never has more rising than falling entries.
C17_InputLogsAlternate ==
    /\ InputEntries(timestamper) = 0
    /\ [][\A ind \in 1..Len(timestamper.state) :
            LET base == ImpliedBaseline(timestamper, ind)
            IN  /\ base \in {0, 1}
                /\ ImpliedBaseline(timestamper', ind) = base
                /\ InputBalance(timestamper', ind) \in -1..1
                /\ Len(timestamper'.timestamps_rising[ind])
                       > Len(timestamper.timestamps_rising[ind])
                     => /\ InputBalance(timestamper, ind) = 0 - base
                        /\ InputBalance(timestamper', ind) = 1 - base
                /\ Len(timestamper'.timestamps_falling[ind])
                       > Len(timestamper.timestamps_falling[ind])
                     => /\ InputBalance(timestamper, ind) = 1 - base
                        /\ InputBalance(timestamper', ind) = 0 - base
                /\ base = 1 =>
                     Len(timestamper'.timestamps_rising[ind])
                       <= Len(timestamper'.timestamps_falling[ind])]_vars

\* C17 witness: an input that was high at construction fell and rose again:
\* one falling entry, then one rising entry, stored level high.
C17_Witness ==
    /\ ImpliedBaseline(timestamper, 1) = 1
    /\ timestamper.state[1] = 1
    /\ Len(timestamper.timestamps_falling[1]) = 1
    /\ Len(timestamper.timestamps_rising[1]) = 1
    /\ timestamper.timestamps_falling[1][1] <= timestamper.timestamps_rising[1][1]

\* The recorder's input side: stored levels and input logs.
InputSide(ts) ==
    <<ts.state, ts.timestamps_rising, ts.timestamps_falling>>

\* The recorder's trigger side: trigger logs and trigger counter.
TriggerSide(ts) ==
    <<ts.timestamps_trigger_rising, ts.timestamps_trigger_falling,
      ts.trigger_counter>>

\* C18: in every interleaving, a trigger tick and a stop leave the stored
\* input levels and all input logs unchanged, and a poll tick leaves the
\* trigger logs, the trigger counter, the trigger state and the running flag
\* unchanged.
C18_DisjointFrames ==
    [][/\ trigger => InputSide(timestamper') = InputSide(timestamper)
       /\ (polling /\ start_stop_polling) =>
             InputSide(timestamper') = InputSide(timestamper)
       /\ poll => /\ TriggerSide(timestamper') = TriggerSide(timestamper)
                  /\ trigger_state' = trigger_state
                  /\ polling' = polling]_vars

\* C18 witness: in one run, trigger ticks of both kinds and a poll tick that
\* logged an input edge have interleaved, and the session is still running
\* with the trigger high.
C18_Witness ==
    /\ polling
    /\ trigger_state
    /\ run.ticks >= 3
    /\ InputEntries(timestamper) >= 1
    /\ change_status = <<TRUE>>

\* The session is stopped: flag down, both timers inactive, output low.
Stopped ==
    /\ ~polling
    /\ ~timerPoll.active
    /\ ~timer_trigger.active
    /\ device.trigger = FALSE

\* C19: with a limit of at least 1, no user stop and the trigger timer
\* firing as long as it is active, every running session whose trigger timer
\* ticks eventually reaches the stopped state, whatever poll ticks and input
\* changes come in between.
C19_RunEnds ==
    (polling /\ timer_trigger.active /\ max_n_triggers >= 1) ~> Stopped

\* C19 witness: a run with limit 2 has ended by itself after its fourth
\* tick, with poll ticks in between.
C19_Witness ==
    /\ Stopped
    /\ run.starts = 1
    /\ run.ticks = 4
    /\ run.user_stops = 0
    /\ max_n_triggers = 2
    /\ timestamper.trigger_counter = 2
    /\ InputEntries(timestamper) >= 1

\* C20: in a run started after a run that stopped by the limit, with the
\* limit (>= 1) not edited since and no user stop, the first trigger tick is a
\* rising command that adds 1 to the counter and leaves the session running,
\* the second is a falling command that stops the session with the counter
\* unchanged and above the limit, and there is no third.
C20_RestartAfterLimit ==
    [][(/\ run.after_limit
        /\ run.limit_edits = 0
        /\ max_n_triggers >= 1
        /\ polling
        /\ trigger) =>
         /\ run.ticks \in {0, 1}
         /\ run.ticks = 0 =>
               /\ trigger_state' /\ device'.trigger
               /\ timestamper'.trigger_counter = timestamper.trigger_counter + 1
               /\ Len(timestamper'.timestamps_trigger_rising) = RisingCount + 1
               /\ Len(timestamper'.timestamps_trigger_falling) = FallingCount
               /\ polling' /\ timer_trigger'.active
         /\ run.ticks = 1 =>
               /\ ~trigger_state' /\ ~device'.trigger
               /\ timestamper'.trigger_counter = timestamper.trigger_counter
               /\ Len(timestamper'.timestamps_trigger_rising) = RisingCount
               /\ ~polling' /\ ~timerPoll'.active /\ ~timer_trigger'.active
               /\ timestamper'.trigger_counter > max_n_triggers]_vars

\* C20 witness: the run started after a stop by limit 1 has made its two
\* ticks and stopped by itself, the counter at 2.
C20_Witness ==
    /\ run.after_limit
    /\ run.limit_edits = 0
    /\ run.user_stops = 0
    /\ run.ticks = 2
    /\ ~polling
    /\ max_n_triggers = 1
    /\ timestamper.trigger_counter = max_n_triggers + 1
    /\ RisingCount = 2

====
